---- MODULE Spec2Model ----
(***************************************************************************)
(* Atari ST disk engine (AtariDiskEngine.cpp): a FAT12 image held in one   *)
(* byte buffer, with directory reads, file reads, injection and deletion.  *)
(*                                                                         *)
(* The byte buffer m_image is kept as its length and the map of its        *)
(* non-zero bytes (offset -> value); every byte not in the map is 0x00.    *)
(* All offsets, sizes and layout constants are those of the source.        *)
(***************************************************************************)
EXTENDS Integers, Sequences, FiniteSets, TLC

(***************************************************************************)
(* Constants of the source.                                                *)
(***************************************************************************)
SECTOR_SIZE == 512
DIRENT_SIZE == 32
BOOT_CHECKSUM_TARGET == 4660
DISK_720K_SIZE == 737280
ROOT_SECTOR == 11
ROOT_SLOTS == 112
FAT_SECTOR == 1
FAT2_SECTOR == 6
FAT_MIRROR_SECTORS == 5
DATA_SECTOR == 18
HATARI_DATA_SECTOR == 14
SCAN_LIMIT == 30
CHAIN_CAP == 1440
INJECT_MAX == 716800
READ_MAX == 4194304
ATTR_ARCHIVE == 32
SUB_SLOTS == 32

(***************************************************************************)
(* Bounds of the model.                                                    *)
(***************************************************************************)
MaxMutations == 2

MaxPick == 5

\* the depth of nested buildChildren calls at which the call stack is exhausted
MaxDepth == 6

(***************************************************************************)
(* Byte buffers.                                                           *)
(***************************************************************************)
EmptyBytes == [x \in {} |-> 0]

Blank(n) == [size |-> n, b |-> EmptyBytes]

NoImage == Blank(0)

Byte(img, o) == IF o \in DOMAIN img.b THEN img.b[o] ELSE 0

\* store the bytes of w (offset -> value) into the buffer
Poke(img, w) ==
  LET set == {x \in DOMAIN w : w[x] # 0}
      clear == {x \in DOMAIN w : w[x] = 0} \cap DOMAIN img.b
      kept == IF clear = {} THEN img.b ELSE [x \in DOMAIN img.b \ clear |-> img.b[x]]
  IN [img EXCEPT !.b = [x \in set |-> w[x]] @@ kept]

\* std::memcpy(&m_image[dst], &m_image[src], n)
Memcpy(img, dst, src, n) ==
  LET keep == {x \in DOMAIN img.b : x < dst \/ x >= dst + n}
      moved == {x + (dst - src) : x \in {y \in DOMAIN img.b : y >= src /\ y < src + n}}
  IN [img EXCEPT !.b = [x \in keep \cup moved |->
                          IF x \in moved THEN img.b[x - (dst - src)] ELSE img.b[x]]]

\* std::memcpy(&m_image[dst], data, data.size)
MemcpyFrom(img, dst, data) ==
  LET keep == {x \in DOMAIN img.b : x < dst \/ x >= dst + data.size}
      moved == {x + dst : x \in DOMAIN data.b}
  IN [img EXCEPT !.b = [x \in keep \cup moved |->
                          IF x \in moved THEN data.b[x - dst] ELSE img.b[x]]]

readLE16(img, o) == Byte(img, o) + 256 * Byte(img, o + 1)

readBE16(img, o) == 256 * Byte(img, o) + Byte(img, o + 1)

writeLE16(o, val) == (o :> (val % 256)) @@ ((o + 1) :> ((val \div 256) % 256))

writeLE32(o, val) ==
  (o :> (val % 256)) @@ ((o + 1) :> ((val \div 256) % 256)) @@
  ((o + 2) :> ((val \div 65536) % 256)) @@ ((o + 3) :> ((val \div 16777216) % 256))

\* a run of bytes s (a sequence) placed at offset o
Bytes(o, s) == [x \in {o + k - 1 : k \in 1..Len(s)} |-> s[x - o + 1]]

(***************************************************************************)
(* DirEntry: the 32 bytes of a directory record, as memcpy'd out of the    *)
(* image (positions 1..32 are bytes 0..31 of the record).                  *)
(***************************************************************************)
Rec(img, off) == [k \in 1..DIRENT_SIZE |-> Byte(img, off + k - 1)]

EntryName(e) == [k \in 1..11 |-> e[k]]

isDirectory(e) == (e[12] \div 16) % 2 = 1

getStartCluster(e) == e[27] + 256 * e[28]

getFileSize(e) == e[29] + 256 * e[30] + 65536 * e[31] + 16777216 * e[32]

(***************************************************************************)
(* Geometry.  m_internalOffset is 0 in every state of the program (load    *)
(* and createNew720KImage set it to 0 and nothing else assigns it), so     *)
(* offsets are written without it.  The uint32 products stay far below     *)
(* 2^31 for every BPB with at most 2 FATs of at most 65535 sectors, so no  *)
(* wrap-around is written.                                                 *)
(***************************************************************************)
\* a variant that never re-reads the BPB fields big-endian
dataStartSector_noSwap(img, mode) ==
  IF mode = "BPB"
  THEN LET rootSectors == ((readLE16(img, 17) * 32) + 511) \div 512
       IN readLE16(img, 14) + (Byte(img, 16) * readLE16(img, 22)) + rootSectors
  ELSE IF mode = "HatariGuess" THEN HATARI_DATA_SECTOR
  ELSE DATA_SECTOR

\* AtariDiskEngine::clusterOffset, the sector that cluster 2 starts at
dataStartSector(img, mode) ==
  IF mode = "BPB"
  THEN LET le == readLE16(img, 14)
           swap == le = 0 \/ le > 500
           reserved == IF swap THEN readBE16(img, 14) ELSE le
           fatCount == Byte(img, 16)
           fatSize == IF swap THEN readBE16(img, 22) ELSE readLE16(img, 22)
           maxRoot == IF swap THEN readBE16(img, 17) ELSE readLE16(img, 17)
           rootSectors == ((maxRoot * 32) + 511) \div 512
       IN reserved + (fatCount * fatSize) + rootSectors
  ELSE IF mode = "HatariGuess" THEN HATARI_DATA_SECTOR
  ELSE DATA_SECTOR

sectorsPerCluster(mode) == IF mode = "HatariGuess" THEN 1 ELSE 2

clusterOffset(img, mode, cluster) ==
  IF img.size = 0 \/ cluster < 2 THEN 0
  ELSE (dataStartSector(img, mode) + (cluster - 2) * sectorsPerCluster(mode)) * SECTOR_SIZE

(***************************************************************************)
(* readRootDirectory                                                       *)
(***************************************************************************)
\* step 1: the BPB check; the root offset it finds, or 0 when it rejects
bpbRootOffset(img) ==
  LET le == readLE16(img, 14)
      reservedSectors == IF le = 0 \/ le > 500 THEN readBE16(img, 14) ELSE le
      fatCount == Byte(img, 16)
      fsLe == readLE16(img, 22)
      fatSize == IF fsLe = 0 \/ fsLe > 500 THEN readBE16(img, 22) ELSE fsLe
  IN IF reservedSectors > 0 /\ reservedSectors < 10
        /\ fatCount > 0 /\ fatCount <= 2 /\ fatSize > 0
     THEN (reservedSectors + (fatCount * fatSize)) * SECTOR_SIZE
     ELSE 0

hasSignature(img, probeOffset) ==
  LET c == Byte(img, probeOffset)
  IN ((c >= 65 /\ c <= 90) \/ (c >= 48 /\ c <= 57)) /\ Byte(img, probeOffset + 11) <= 63

\* step 2: the brute force scan; the sector it finds, or 0
RECURSIVE bruteScan(_, _)
bruteScan(img, sector) ==
  IF sector >= SCAN_LIMIT THEN 0
  ELSE IF sector * SECTOR_SIZE + 32 > img.size THEN 0
  ELSE IF hasSignature(img, sector * SECTOR_SIZE) THEN sector
  ELSE bruteScan(img, sector + 1)

isGarbageName(img, p) ==
  \E j \in 0..7 : Byte(img, p + j) # 32 /\ (Byte(img, p + j) < 32 \/ Byte(img, p + j) > 126)

\* step 3: extraction of the entries, one iteration of the loop
rootStep(img, foundOffset, s) ==
  LET p == foundOffset + s.i * 32
      e == Rec(img, p)
  IN IF p + 32 > img.size THEN [s EXCEPT !.done = TRUE]
     ELSE IF Byte(img, p) = 0 THEN [s EXCEPT !.done = TRUE]
     ELSE IF Byte(img, p) = 229 THEN [s EXCEPT !.i = s.i + 1, !.done = s.i + 1 >= ROOT_SLOTS]
     ELSE IF isGarbageName(img, p) THEN [s EXCEPT !.done = TRUE]
     ELSE [i |-> s.i + 1,
           acc |-> IF (e[12] \div 8) % 2 = 0 THEN Append(s.acc, e) ELSE s.acc,
           done |-> s.i + 1 >= ROOT_SLOTS]

RECURSIVE rootRun(_, _, _, _)
rootRun(img, foundOffset, s, k) ==
  IF k = 0 \/ s.done THEN s ELSE rootRun(img, foundOffset, rootStep(img, foundOffset, s), k - 1)

RECURSIVE rootLoop(_, _, _)
rootLoop(img, foundOffset, s) ==
  IF s.done THEN s ELSE rootLoop(img, foundOffset, rootRun(img, foundOffset, s, 16))

rootEntries(img, foundOffset) ==
  rootLoop(img, foundOffset, [i |-> 0, acc |-> <<>>, done |-> FALSE]).acc

\* a variant whose default keeps the heuristic mode
readRootDirectory_defaultGuess(img) ==
  LET bpb == bpbRootOffset(img)
      scan == IF bpb # 0 THEN 0 ELSE bruteScan(img, 1)
      foundOffset == IF bpb # 0 THEN bpb
                     ELSE IF scan # 0 THEN scan * SECTOR_SIZE
                     ELSE ROOT_SECTOR * SECTOR_SIZE
      mode == IF bpb # 0 THEN "BPB" ELSE "HatariGuess"
  IN [mode |-> mode, foundOffset |-> foundOffset, scan |-> scan,
      entries |-> rootEntries(img, foundOffset)]

readRootDirectory(img) ==
  LET bpb == bpbRootOffset(img)
      scan == IF bpb # 0 THEN 0 ELSE bruteScan(img, 1)
      foundOffset == IF bpb # 0 THEN bpb
                     ELSE IF scan # 0 THEN scan * SECTOR_SIZE
                     ELSE ROOT_SECTOR * SECTOR_SIZE
      mode == IF bpb # 0 THEN "BPB" ELSE IF scan # 0 THEN "HatariGuess" ELSE "BPB"
  IN [mode |-> mode, foundOffset |-> foundOffset, scan |-> scan,
      entries |-> rootEntries(img, foundOffset)]

(***************************************************************************)
(* FAT12 reads                                                             *)
(***************************************************************************)
fat1Offset(img) == readLE16(img, 11) * SECTOR_SIZE

\* the 12-bit entry of cluster c in a FAT whose first byte is at fatOffset
fatDecode(img, fatOffset, c) ==
  LET idx == (c * 3) \div 2
      b0 == Byte(img, fatOffset + idx)
      b1 == Byte(img, fatOffset + idx + 1)
  IN IF c % 2 = 0 THEN b0 + 256 * (b1 % 16) ELSE (b0 \div 16) + 16 * b1

\* getNextCluster reads inside the buffer
nextClusterInBounds(img, c) == fat1Offset(img) + ((c * 3) \div 2) + 1 < img.size

\* a variant that takes the low 12 bits for odd clusters too
getNextCluster_lowBits(img, c) ==
  LET byteOffset == (c * 3) \div 2
      raw == readLE16(img, fat1Offset(img) + byteOffset)
  IN IF byteOffset + 1 >= img.size THEN 4095 ELSE raw % 4096

getNextCluster(img, c) ==
  LET byteOffset == (c * 3) \div 2
      raw == readLE16(img, fat1Offset(img) + byteOffset)
  IN IF byteOffset + 1 >= img.size THEN 4095
     ELSE IF c % 2 = 1 THEN raw \div 16 ELSE raw % 4096

\* one iteration of the while loop of getClusterChain
chainStep(img, s) ==
  LET chain == Append(s.chain, s.cur)
      idx == (s.cur * 3) \div 2
      next == fatDecode(img, FAT_SECTOR * SECTOR_SIZE, s.cur)
  IN IF FAT_SECTOR * SECTOR_SIZE + idx + 1 >= img.size
       THEN [cur |-> s.cur, chain |-> chain, done |-> TRUE]
     ELSE IF next >= 4088 \/ next = 0
       THEN [cur |-> s.cur, chain |-> chain, done |-> TRUE]
     ELSE IF next = s.cur \/ Len(chain) > CHAIN_CAP
       THEN [cur |-> s.cur, chain |-> chain, done |-> TRUE]
     ELSE [cur |-> next, chain |-> chain, done |-> ~(next >= 2 /\ next < 4080)]

RECURSIVE chainRun(_, _, _)
chainRun(img, s, k) == IF k = 0 \/ s.done THEN s ELSE chainRun(img, chainStep(img, s), k - 1)

RECURSIVE chainLoop(_, _)
chainLoop(img, s) == IF s.done THEN s ELSE chainLoop(img, chainRun(img, s, 32))

getClusterChain(img, startCluster) ==
  IF img.size = 0 \/ startCluster < 2 \/ startCluster >= 4080 THEN <<>>
  ELSE chainLoop(img, [cur |-> startCluster, chain |-> <<>>, done |-> FALSE]).chain

(***************************************************************************)
(* readSubDirectory                                                        *)
(***************************************************************************)
\* the garbage test of readSubDirectory: the first 5 bytes of the record
isGarbageSub(img, p) == \E j \in 0..4 : Byte(img, p + j) < 32 \/ Byte(img, p + j) > 126

\* the loop of readSubDirectory from slot i on
RECURSIVE subLoop(_, _, _, _)
subLoop(img, offset, i, acc) ==
  LET p == offset + (i * 32)
  IN IF i >= SUB_SLOTS THEN acc
     ELSE IF Byte(img, p) = 0 THEN acc
     ELSE IF Byte(img, p) = 229 THEN subLoop(img, offset, i + 1, acc)
     ELSE IF isGarbageSub(img, p) \/ Byte(img, p + 11) > 63 THEN acc
     ELSE subLoop(img, offset, i + 1, Append(acc, Rec(img, p)))

readSubDirectory(img, mode, startCluster) ==
  LET offset == clusterOffset(img, mode, startCluster)
  IN IF offset + DIRENT_SIZE > img.size THEN <<>> ELSE subLoop(img, offset, 0, <<>>)

(***************************************************************************)
(* readFile: the result is a byte buffer (length and non-zero bytes)       *)
(***************************************************************************)
\* data.insert(data.end(), ptr, ptr + toRead)
appendFrom(data, img, off, toRead) ==
  LET src == {x \in DOMAIN img.b : x >= off /\ x < off + toRead}
      new == {data.size + (x - off) : x \in src}
  IN [size |-> data.size + toRead,
      b |-> [x \in DOMAIN data.b \cup new |->
               IF x \in new THEN img.b[off + (x - data.size)] ELSE data.b[x]]]

\* the loop over the sectors of one cluster
RECURSIVE readSectors(_, _, _, _, _, _)
readSectors(img, clusterBase, s, spc, fileSize, data) ==
  IF s >= spc THEN data
  ELSE LET sectorOffset == clusterBase + s * SECTOR_SIZE
           remaining == fileSize - data.size
           toRead == IF remaining < SECTOR_SIZE THEN remaining ELSE SECTOR_SIZE
       IN IF toRead > 0 /\ sectorOffset + toRead > img.size THEN data
          ELSE LET d2 == IF toRead > 0 THEN appendFrom(data, img, sectorOffset, toRead)
                         ELSE data
               IN IF d2.size >= fileSize THEN d2
                  ELSE readSectors(img, clusterBase, s + 1, spc, fileSize, d2)

\* one iteration of the loop over the chain
readStep(img, mode, chain, fileSize, s) ==
  LET d2 == readSectors(img, clusterOffset(img, mode, chain[s.cIdx]), 0,
                        sectorsPerCluster(mode), fileSize, s.data)
  IN [cIdx |-> s.cIdx + 1, data |-> d2,
      done |-> d2.size >= fileSize \/ s.cIdx + 1 > Len(chain)]

RECURSIVE readRun(_, _, _, _, _, _)
readRun(img, mode, chain, fileSize, s, k) ==
  IF k = 0 \/ s.done THEN s
  ELSE readRun(img, mode, chain, fileSize, readStep(img, mode, chain, fileSize, s), k - 1)

RECURSIVE readLoop(_, _, _, _, _)
readLoop(img, mode, chain, fileSize, s) ==
  IF s.done THEN s
  ELSE readLoop(img, mode, chain, fileSize, readRun(img, mode, chain, fileSize, s, 32))

\* a variant that reads the first cluster of the chain only
readFile_firstCluster(img, mode, entry) ==
  LET fileSize == getFileSize(entry)
      whole == getClusterChain(img, getStartCluster(entry))
      chain == SubSeq(whole, 1, IF Len(whole) > 1 THEN 1 ELSE Len(whole))
  IN IF fileSize = 0 \/ img.size = 0 THEN Blank(0)
     ELSE IF fileSize > READ_MAX THEN Blank(0)
     ELSE readLoop(img, mode, chain, fileSize,
                   [cIdx |-> 1, data |-> Blank(0), done |-> Len(chain) = 0]).data

readFile(img, mode, entry) ==
  LET fileSize == getFileSize(entry)
      chain == getClusterChain(img, getStartCluster(entry))
  IN IF fileSize = 0 \/ img.size = 0 THEN Blank(0)
     ELSE IF fileSize > READ_MAX THEN Blank(0)
     ELSE readLoop(img, mode, chain, fileSize,
                   [cIdx |-> 1, data |-> Blank(0), done |-> Len(chain) = 0]).data

(***************************************************************************)
(* Construction and loading                                                *)
(***************************************************************************)
\* sum of the big-endian 16-bit words at offsets lo..hi-1, wrapping at 2^16
RECURSIVE wordSumOver(_, _)
wordSumOver(img, S) ==
  IF S = {} THEN 0
  ELSE LET x == CHOOSE y \in S : TRUE
           w == IF x % 2 = 0 THEN 256 * img.b[x] ELSE img.b[x]
       IN (w + wordSumOver(img, S \ {x})) % 65536

wordSum(img, lo, hi) == wordSumOver(img, {x \in DOMAIN img.b : x >= lo /\ x < hi})

\* a variant that leaves the two checksum bytes zero
createNew720KImage_noChecksum ==
  Poke(Blank(DISK_720K_SIZE),
       Bytes(0, <<235, 52, 144>>) @@
       Bytes(3, <<65, 78, 84, 73, 71, 82, 65, 86>>) @@
       Bytes(11, <<0, 2, 2, 1, 0, 2, 112, 0, 160, 5, 249, 5, 0>>))

createNew720KImage ==
  LET bpb == Poke(Blank(DISK_720K_SIZE),
                  Bytes(0, <<235, 52, 144>>) @@
                  Bytes(3, <<65, 78, 84, 73, 71, 82, 65, 86>>) @@
                  Bytes(11, <<0, 2, 2, 1, 0, 2, 112, 0, 160, 5, 249, 5, 0>>))
      sum == wordSum(bpb, 0, 510)
      checksum == (BOOT_CHECKSUM_TARGET - sum) % 65536
  IN Poke(bpb, (510 :> ((checksum \div 256) % 256)) @@ (511 :> (checksum % 256)))

\* a variant that leaves the last word out of the sum
validateBootChecksum_skipLast(img) == wordSum(img, 0, 510) = BOOT_CHECKSUM_TARGET

\* AtariDiskEngine::validateBootChecksum over the first sector of the buffer
validateBootChecksum(img) == wordSum(img, 0, SECTOR_SIZE) = BOOT_CHECKSUM_TARGET

\* AtariDiskEngine::init: throws when the buffer is shorter than a sector
initThrows(img) == img.size < SECTOR_SIZE

\* AtariDiskEngine::load: the buffer and mode it leaves, and whether it threw
load(data) ==
  [img |-> data, mode |-> "Unknown",
   threw |-> IF data.size = 0 THEN FALSE ELSE initThrows(data)]

(***************************************************************************)
(* injectFile                                                              *)
(***************************************************************************)
toUpper(s) == [k \in 1..Len(s) |-> IF s[k] >= 97 /\ s[k] <= 122 THEN s[k] - 32 ELSE s[k]]

left(s, n) == SubSeq(s, 1, IF Len(s) < n THEN Len(s) ELSE n)

leftJustified(s, n) == [k \in 1..(IF Len(s) > n THEN Len(s) ELSE n) |->
                          IF k <= Len(s) THEN s[k] ELSE 32]

\* a variant that also takes a slot marked deleted
firstFreeSlot_reuseDeleted(img) ==
  LET free == {i \in 0..(ROOT_SLOTS - 1) :
                 Byte(img, ROOT_SECTOR * SECTOR_SIZE + (i * 32)) \in {0, 229}}
  IN IF free = {} THEN -1 ELSE CHOOSE i \in free : \A j \in free : i <= j

\* the search loop of injectFile: the first slot whose first byte is 0x00, or -1
firstFreeSlot(img) ==
  LET free == {i \in 0..(ROOT_SLOTS - 1) : Byte(img, ROOT_SECTOR * SECTOR_SIZE + (i * 32)) = 0}
  IN IF free = {} THEN -1 ELSE CHOOSE i \in free : \A j \in free : i <= j

\* a variant whose even-cluster store overwrites the whole shared byte
fatStore_clobber(img, fatOffset, current, next) ==
  LET idx == (current * 3) \div 2
      b0 == Byte(img, fatOffset + idx)
  IN IF current % 2 = 0
     THEN Poke(img, ((fatOffset + idx) :> (next % 256)) @@
                    ((fatOffset + idx + 1) :> ((next \div 256) % 16)))
     ELSE Poke(img, ((fatOffset + idx) :> ((b0 % 16) + ((next % 16) * 16))) @@
                    ((fatOffset + idx + 1) :> ((next \div 16) % 256)))

\* the packed 12-bit store of the FAT loop of injectFile
fatStore(img, fatOffset, current, next) ==
  LET idx == (current * 3) \div 2
      b0 == Byte(img, fatOffset + idx)
      b1 == Byte(img, fatOffset + idx + 1)
  IN IF current % 2 = 0
     THEN Poke(img, ((fatOffset + idx) :> (next % 256)) @@
                    ((fatOffset + idx + 1) :> ((b1 \div 16) * 16 + ((next \div 256) % 16))))
     ELSE Poke(img, ((fatOffset + idx) :> ((b0 % 16) + ((next % 16) * 16))) @@
                    ((fatOffset + idx + 1) :> ((next \div 16) % 256)))

injectFatStep(clustersNeeded, s) ==
  LET current == (2 + s.i) % 65536
      next == IF s.i = clustersNeeded - 1 THEN 4095 ELSE (current + 1) % 65536
  IN [i |-> s.i + 1, img |-> fatStore(s.img, FAT_SECTOR * SECTOR_SIZE, current, next)]

RECURSIVE injectFatRun(_, _, _)
injectFatRun(clustersNeeded, s, k) ==
  IF k = 0 \/ s.i >= clustersNeeded THEN s
  ELSE injectFatRun(clustersNeeded, injectFatStep(clustersNeeded, s), k - 1)

RECURSIVE injectFatLoop(_, _)
injectFatLoop(clustersNeeded, s) ==
  IF s.i >= clustersNeeded THEN s
  ELSE injectFatLoop(clustersNeeded, injectFatRun(clustersNeeded, s, 32))

syncFat2(img) ==
  Memcpy(img, FAT2_SECTOR * SECTOR_SIZE, FAT_SECTOR * SECTOR_SIZE,
         FAT_MIRROR_SECTORS * SECTOR_SIZE)

\* the writes of injectFile once a free slot entryIndex is found
\* path: [base, suffix] as character codes; file: [ok, size, b], ok = it opens
injectWrite(img, path, file, entryIndex) ==
  LET baseName == leftJustified(left(toUpper(path.base), 8), 8)
      ext == leftJustified(left(toUpper(path.suffix), 3), 3)
      rootOffset == ROOT_SECTOR * SECTOR_SIZE
      clustersNeeded == (file.size + 1023) \div 1024
      fat == injectFatLoop(clustersNeeded, [i |-> 0, img |-> img]).img
      mirrored == syncFat2(fat)
      entryPtr == rootOffset + (entryIndex * 32)
      withEntry == Poke(mirrored,
                        Bytes(entryPtr, baseName) @@ Bytes(entryPtr + 8, ext) @@
                        ((entryPtr + 11) :> ATTR_ARCHIVE) @@
                        writeLE16(entryPtr + 26, 2) @@ writeLE32(entryPtr + 28, file.size))
      physOffset == DATA_SECTOR * SECTOR_SIZE
      data == [size |-> file.size, b |-> file.b]
  IN IF physOffset + file.size <= img.size
     THEN MemcpyFrom(withEntry, physOffset, data) ELSE withEntry

\* a variant that reports a full root directory only after writing
injectFile_lateSlotCheck(img, path, file) ==
  LET entryIndex == firstFreeSlot(img)
  IN IF ~file.ok THEN [img |-> img, ret |-> FALSE]
     ELSE IF file.size > INJECT_MAX THEN [img |-> img, ret |-> FALSE]
     ELSE IF entryIndex = -1
       THEN [img |-> injectWrite(img, path, file, 0), ret |-> FALSE]
     ELSE [img |-> injectWrite(img, path, file, entryIndex), ret |-> TRUE]

injectFile(img, path, file) ==
  LET entryIndex == firstFreeSlot(img)
  IN IF ~file.ok THEN [img |-> img, ret |-> FALSE]
     ELSE IF file.size > INJECT_MAX THEN [img |-> img, ret |-> FALSE]
     ELSE IF entryIndex = -1 THEN [img |-> img, ret |-> FALSE]
     ELSE [img |-> injectWrite(img, path, file, entryIndex), ret |-> TRUE]

(***************************************************************************)
(* deleteFile                                                              *)
(***************************************************************************)
\* the search loop of deleteFile: the first slot with the entry's 11 name bytes, or -1
findByName(img, entry) ==
  LET same == {i \in 0..(ROOT_SLOTS - 1) :
                 \A k \in 0..10 : Byte(img, ROOT_SECTOR * SECTOR_SIZE + (i * 32) + k) = entry[k + 1]}
  IN IF same = {} THEN -1 ELSE CHOOSE i \in same : \A j \in same : i <= j

\* the wipe of one FAT entry in deleteFile
fatWipe(img, fatOffset, current) ==
  LET idx == (current * 3) \div 2
      b0 == Byte(img, fatOffset + idx)
      b1 == Byte(img, fatOffset + idx + 1)
  IN IF current % 2 = 0
     THEN Poke(img, ((fatOffset + idx) :> 0) @@ ((fatOffset + idx + 1) :> ((b1 \div 16) * 16)))
     ELSE Poke(img, ((fatOffset + idx) :> (b0 % 16)) @@ ((fatOffset + idx + 1) :> 0))

inChainRange(c) == c >= 2 /\ c < 4080

\* a variant that looks the next link up after wiping the entry
deleteStep_lookupAfterWipe(s) ==
  LET wiped == fatWipe(s.img, FAT_SECTOR * SECTOR_SIZE, s.cur)
      next == fatDecode(wiped, FAT_SECTOR * SECTOR_SIZE, s.cur)
  IN IF next >= 4088 \/ next = 0
     THEN [cur |-> s.cur, img |-> wiped, done |-> TRUE]
     ELSE [cur |-> next, img |-> wiped, done |-> ~inChainRange(next)]

deleteStep(s) ==
  LET next == fatDecode(s.img, FAT_SECTOR * SECTOR_SIZE, s.cur)
      wiped == fatWipe(s.img, FAT_SECTOR * SECTOR_SIZE, s.cur)
  IN IF next >= 4088 \/ next = 0
     THEN [cur |-> s.cur, img |-> wiped, done |-> TRUE]
     ELSE [cur |-> next, img |-> wiped, done |-> ~inChainRange(next)]

RECURSIVE deleteRun(_, _)
deleteRun(s, k) == IF k = 0 \/ s.done THEN s ELSE deleteRun(deleteStep(s), k - 1)

RECURSIVE deleteLoop(_)
deleteLoop(s) == IF s.done THEN s ELSE deleteLoop(deleteRun(s, 32))

\* the number of rounds the chain-freeing loop of deleteFile makes
RECURSIVE deleteRoundsFrom(_, _)
deleteRoundsFrom(s, n) == IF s.done THEN n ELSE deleteRoundsFrom(deleteStep(s), n + 1)

deleteRounds(img, entry) ==
  LET startCluster == getStartCluster(entry)
      slot == findByName(img, entry)
      marked == Poke(img, (ROOT_SECTOR * SECTOR_SIZE + (slot * 32)) :> 229)
  IN deleteRoundsFrom([cur |-> startCluster, img |-> marked,
                       done |-> ~inChainRange(startCluster)], 0)

deleteFile(img, entry) ==
  LET startCluster == getStartCluster(entry)
      slot == findByName(img, entry)
      marked == Poke(img, (ROOT_SECTOR * SECTOR_SIZE + (slot * 32)) :> 229)
      freed == deleteLoop([cur |-> startCluster, img |-> marked,
                           done |-> ~inChainRange(startCluster)]).img
  IN IF img.size = 0 THEN [img |-> img, ret |-> FALSE]
     ELSE IF isDirectory(entry) THEN [img |-> img, ret |-> FALSE]
     ELSE IF slot = -1 THEN [img |-> img, ret |-> FALSE]
     ELSE [img |-> syncFat2(freed), ret |-> TRUE]

(***************************************************************************)
(* getDiskStats: the free space it reports                                 *)
(***************************************************************************)
\* for a loaded image (an empty buffer gets a default-constructed DiskStats);
\* the sectors per cluster are taken from the mode before the root is re-read
getDiskStats(img, mode) ==
  LET spc == sectorsPerCluster(mode)
      totalClusters == (img.size - (DATA_SECTOR * SECTOR_SIZE)) \div (spc * SECTOR_SIZE)
      freeClusters == Cardinality({i \in 2..(totalClusters + 1) :
                                     fatDecode(img, FAT_SECTOR * SECTOR_SIZE, i) = 0})
  IN [totalBytes |-> img.size, sectorsPerCluster |-> spc,
      totalClusters |-> totalClusters, freeClusters |-> freeClusters,
      freeBytes |-> freeClusters * (spc * SECTOR_SIZE)]

(***************************************************************************)
(* Inputs: the disk images that load is given, and the host files that     *)
(* injectFile is given.                                                    *)
(***************************************************************************)
ImageSectors == 40

DirRecord(off, name, attr, start, size) ==
  Bytes(off, name) @@ ((off + 11) :> attr) @@
  writeLE16(off + 26, start) @@ writeLE32(off + 28, size)

\* BPB bytes 0x0B..0x17
BpbBytes(bps, spc, reserved, fatCount, maxRoot, total, media, fatSize) ==
  Bytes(11, <<bps[1], bps[2], spc, reserved[1], reserved[2], fatCount,
              maxRoot[1], maxRoot[2], total[1], total[2], media, fatSize[1], fatSize[2]>>)

StdBpb == BpbBytes(<<0, 2>>, 2, <<1, 0>>, 2, <<112, 0>>, <<ImageSectors, 0>>, 249, <<5, 0>>)

FatHead(off) == Bytes(off, <<249, 255, 255>>)

\* a standard 720K-layout image holding a cyclic chain (2 -> 3 -> 2), a
\* self-referential chain (5 -> 5), a directory and a two-cluster file
ImgStdFiles ==
  LET base == Poke(Blank(ImageSectors * SECTOR_SIZE),
                StdBpb @@ FatHead(512) @@
                DirRecord(5632, <<76, 79, 79, 80, 32, 32, 32, 32, 66, 73, 78>>, 32, 2, 3000) @@
                DirRecord(5664, <<83, 69, 76, 70, 32, 32, 32, 32, 66, 73, 78>>, 32, 5, 100) @@
                DirRecord(5696, <<83, 85, 66, 32, 32, 32, 32, 32, 32, 32, 32>>, 16, 7, 0) @@
                DirRecord(5728, <<71, 79, 79, 68, 32, 32, 32, 32, 84, 88, 84>>, 32, 8, 1500) @@
                Bytes(9216, <<1, 2, 3>>) @@ Bytes(15360, <<71, 79>>) @@
                (15871 :> 9) @@ (15872 :> 8) @@ (16859 :> 7))
      f1 == fatStore(base, 512, 2, 3)
      f2 == fatStore(f1, 512, 3, 2)
      f3 == fatStore(f2, 512, 5, 5)
      f4 == fatStore(f3, 512, 7, 4095)
      f5 == fatStore(f4, 512, 8, 9)
      f6 == fatStore(f5, 512, 9, 4095)
  IN syncFat2(f6)

\* zeroed reserved-sector field, directory signature first at sector sig
ImgHatari(sig) ==
  LET base == Poke(Blank(ImageSectors * SECTOR_SIZE),
                BpbBytes(<<0, 2>>, 1, <<0, 0>>, 2, <<112, 0>>, <<ImageSectors, 0>>, 249, <<5, 0>>) @@
                FatHead(512) @@
                DirRecord(sig * SECTOR_SIZE, <<71, 65, 77, 69, 32, 32, 32, 32, 80, 82, 71>>,
                          32, 2, 600) @@
                Bytes(14 * SECTOR_SIZE, <<96, 26>>) @@ ((15 * SECTOR_SIZE + 87) :> 5))
      f1 == fatStore(base, 512, 2, 3)
  IN fatStore(f1, 512, 3, 4095)

\* a valid BPB with 3 sectors per FAT: FAT2 at sector 4, root at sector 7
ImgSpf3 ==
  LET base == Poke(Blank(ImageSectors * SECTOR_SIZE),
                BpbBytes(<<0, 2>>, 2, <<1, 0>>, 2, <<112, 0>>, <<ImageSectors, 0>>, 249, <<3, 0>>) @@
                FatHead(512) @@ FatHead(2048) @@
                DirRecord(3584, <<68, 69, 77, 79, 32, 32, 32, 32, 84, 88, 84>>, 32, 2, 1030) @@
                Bytes(14 * SECTOR_SIZE, <<72, 105>>) @@ ((16 * SECTOR_SIZE + 5) :> 33))
      f1 == fatStore(base, 512, 2, 3)
      f2 == fatStore(f1, 512, 3, 4095)
      f3 == fatStore(f2, 2048, 2, 3)
  IN fatStore(f3, 2048, 3, 4095)

\* a BPB whose 16-bit fields are stored big-endian: reserved 2, 5 per FAT
ImgBE ==
  LET base == Poke(Blank(ImageSectors * SECTOR_SIZE),
                BpbBytes(<<2, 0>>, 2, <<0, 2>>, 2, <<0, 112>>, <<0, ImageSectors>>, 249, <<0, 5>>) @@
                FatHead(1024) @@ FatHead(3584) @@
                DirRecord(12 * SECTOR_SIZE, <<66, 73, 71, 32, 32, 32, 32, 32, 68, 65, 84>>,
                          32, 2, 20) @@
                Bytes(19 * SECTOR_SIZE, <<4, 5, 6>>))
  IN fatStore(base, 512, 2, 4095)

\* a standard layout whose 112 root slots are all in use (FULLaa.DAT, ...)
FullRootByte(i, k) ==
  IF k = 4 THEN 65 + (i \div 16)
  ELSE IF k = 5 THEN 65 + (i % 16)
  ELSE <<70, 85, 76, 76, 0, 0, 32, 32, 68, 65, 84, 32>>[k + 1]

ImgFullRoot ==
  Poke(Blank(ImageSectors * SECTOR_SIZE),
       StdBpb @@ FatHead(512) @@ FatHead(3072) @@
       [x \in {5632 + 32 * i + k : i \in 0..(ROOT_SLOTS - 1), k \in 0..11} |->
          FullRootByte((x - 5632) \div 32, (x - 5632) % 32)])

\* no usable BPB and no directory signature; the word at 0x0B is 1, so
\* fat1Offset is sector 1, where the FAT bytes are 03 40 00
ImgFat3 ==
  Poke(Blank(ImageSectors * SECTOR_SIZE),
       BpbBytes(<<1, 0>>, 0, <<0, 0>>, 0, <<0, 0>>, <<0, 0>>, 0, <<0, 0>>) @@
       Bytes(512, <<3, 64, 0>>))

\* a buffer shorter than one sector
ImgShort == Poke(Blank(100), Bytes(0, <<235, 52, 144>>))

Images ==
  {NoImage, ImgShort, ImgStdFiles, ImgHatari(7), ImgHatari(9), ImgSpf3, ImgBE,
   ImgFullRoot, ImgFat3}

\* host files: whether it opens, its length, its non-zero bytes
FileNone == [ok |-> FALSE, size |-> 0, b |-> EmptyBytes]

File0 == [ok |-> TRUE, size |-> 0, b |-> EmptyBytes]

File600 == [ok |-> TRUE, size |-> 600,
            b |-> (0 :> 17) @@ (511 :> 18) @@ (512 :> 19) @@ (599 :> 20)]

File2000 == [ok |-> TRUE, size |-> 2000,
             b |-> (0 :> 33) @@ (1023 :> 34) @@ (1024 :> 35) @@ (1999 :> 36)]

File40000 == [ok |-> TRUE, size |-> 40000, b |-> (0 :> 49) @@ (39999 :> 50)]

FileTooBig == [ok |-> TRUE, size |-> INJECT_MAX + 1, b |-> (0 :> 65)]

\* good.txt and longfilename.data
PathGood == [base |-> <<103, 111, 111, 100>>, suffix |-> <<116, 120, 116>>]

PathLong == [base |-> <<108, 111, 110, 103, 102, 105, 108, 101, 110, 97, 109, 101>>,
             suffix |-> <<100, 97, 116, 97>>]

InjectInputs ==
  {[path |-> PathGood, file |-> FileNone], [path |-> PathGood, file |-> File0],
   [path |-> PathGood, file |-> File600], [path |-> PathGood, file |-> File2000],
   [path |-> PathLong, file |-> File40000], [path |-> PathLong, file |-> FileTooBig]}

\* an entry that is in no directory of the images
EntryAbsent == [k \in 1..DIRENT_SIZE |->
                  IF k <= 11 THEN <<78, 79, 80, 69, 32, 32, 32, 32, 88, 88, 88>>[k] ELSE 0]

\* values an out-of-bounds read may produce
WildValues == {0, 291, 4095}

\* a cluster number whose packed entry lies beyond a 5-sector FAT
FarCluster == 3416

(***************************************************************************)
(* The engine as a state machine                                           *)
(***************************************************************************)
VARIABLES m_image, m_geoMode, nMut, last, walk

vars == <<m_image, m_geoMode, nMut, last, walk>>

\* last: the last call: its name, whether it threw, the buffer and mode it
\* started from (for the calls that read or change the loaded image), and
\* its argument and result, each kind of value in a field of its own
NoEntry == [k \in 1..DIRENT_SIZE |-> 0]

NoInput == [path |-> [base |-> <<>>, suffix |-> <<>>], file |-> FileNone]

NoCall ==
  [op |-> "new", threw |-> FALSE, pre |-> NoImage, preMode |-> "Unknown",
   argNum |-> 0, argEntry |-> NoEntry, argInput |-> NoInput,
   retOk |-> FALSE, retNum |-> 0, retEntries |-> <<>>, retChain |-> <<>>,
   retData |-> [size |-> 0, b |-> EmptyBytes]]

Call(op) == [NoCall EXCEPT !.op = op, !.pre = m_image, !.preMode = m_geoMode]

Replaced(op, size, threw) == [NoCall EXCEPT !.op = op, !.argNum = size, !.threw = threw]

\* walk: the tree builder of the file-system model: whether it runs, and
\* its pending calls, outermost first; each is the directory listed (its
\* start cluster, 0 for the root), the entries read from it and the index
\* of the next entry to visit
WalkIdle == [status |-> "idle", stack |-> <<>>]

isLoaded == m_image.size # 0

\* calls index the buffer without checks below these lengths
CanRead == m_image.size = 0 \/ m_image.size >= SECTOR_SIZE

CanWrite == m_image.size >= DATA_SECTOR * SECTOR_SIZE

\* the entries a caller can hold (the tree view hands any of its entries to
\* readFile and deleteFile): the first MaxPick of the root directory, the
\* first MaxPick of each directory among them, and a stale one
KnownEntries ==
  LET Picked(es) == {es[i] : i \in DOMAIN es \cap 1..MaxPick}
      top == Picked(readRootDirectory(m_image).entries)
      dirs == {getStartCluster(d) : d \in {e \in top : isDirectory(e)}}
      inside == {c \in dirs : c >= 2 /\ clusterOffset(m_image, m_geoMode, c)
                                          + SUB_SLOTS * 32 <= m_image.size}
  IN top \cup UNION {Picked(readSubDirectory(m_image, m_geoMode, c)) : c \in inside}
         \cup {EntryAbsent}

Init ==
  /\ m_image = NoImage
  /\ m_geoMode = "Unknown"
  /\ nMut = 0
  /\ walk = WalkIdle
  /\ last = Replaced("new", 0, FALSE)

Load ==
  \E data \in Images :
    LET r == load(data)
    IN /\ m_image' = r.img
       /\ m_geoMode' = r.mode
       /\ nMut' = 0
       /\ last' = Replaced("load", data.size, r.threw)
       /\ UNCHANGED walk

CreateNew720KImage ==
  /\ m_image' = createNew720KImage
  /\ m_geoMode' = "BPB"
  /\ nMut' = 0
  /\ last' = Replaced("createNew720KImage", 0, FALSE)
  /\ UNCHANGED walk

\* a variant that lists nothing once the mode is resolved
ReadRootDirectory_onceOnly ==
  /\ CanRead
  /\ LET r == readRootDirectory(m_image)
     IN IF ~isLoaded
        THEN /\ m_geoMode' = m_geoMode
             /\ last' = Call("readRootDirectory")
        ELSE /\ m_geoMode' = r.mode
             /\ last' = [Call("readRootDirectory") EXCEPT
                           !.argNum = r.scan,
                           !.retEntries = IF m_geoMode = "Unknown" THEN r.entries ELSE <<>>]
  /\ UNCHANGED <<m_image, nMut, walk>>

ReadRootDirectory ==
  /\ CanRead
  /\ LET r == readRootDirectory(m_image)
     IN IF ~isLoaded
        THEN /\ m_geoMode' = m_geoMode
             /\ last' = Call("readRootDirectory")
        ELSE /\ m_geoMode' = r.mode
             /\ last' = [Call("readRootDirectory") EXCEPT !.argNum = r.scan,
                                                              !.retEntries = r.entries]
  /\ UNCHANGED <<m_image, nMut, walk>>

ReadFile ==
  /\ CanRead
  /\ \E e \in KnownEntries :
       last' = [Call("readFile") EXCEPT !.argEntry = e,
                                        !.retData = readFile(m_image, m_geoMode, e)]
  /\ UNCHANGED <<m_image, m_geoMode, nMut, walk>>

GetClusterChain ==
  /\ CanWrite
  /\ \E c \in {getStartCluster(e) : e \in KnownEntries} \cup {1, 4, FarCluster} :
       last' = [Call("getClusterChain") EXCEPT !.argNum = c,
                                               !.retChain = getClusterChain(m_image, c)]
  /\ UNCHANGED <<m_image, m_geoMode, nMut, walk>>

GetNextCluster ==
  /\ m_image.size >= SECTOR_SIZE
  /\ \E c \in 0..2 \cup {FarCluster} :
       \E wild \in WildValues :
         LET ret == IF (c * 3) \div 2 + 1 >= m_image.size \/ nextClusterInBounds(m_image, c)
                    THEN getNextCluster(m_image, c) ELSE wild
         IN last' = [Call("getNextCluster") EXCEPT !.argNum = c, !.retNum = ret]
  /\ UNCHANGED <<m_image, m_geoMode, nMut, walk>>

InjectFile ==
  /\ CanWrite
  /\ nMut < MaxMutations
  /\ \E in \in InjectInputs :
       LET r == injectFile(m_image, in.path, in.file)
       IN /\ m_image' = r.img
          /\ last' = [Call("injectFile") EXCEPT !.argInput = in, !.retOk = r.ret]
          /\ nMut' = IF r.ret THEN nMut + 1 ELSE nMut
  /\ UNCHANGED <<m_geoMode, walk>>

DeleteFile ==
  /\ m_image.size = 0 \/ CanWrite
  /\ nMut < MaxMutations
  /\ \E e \in KnownEntries :
       LET r == deleteFile(m_image, e)
       IN /\ m_image' = r.img
          /\ last' = [Call("deleteFile") EXCEPT !.argEntry = e, !.retOk = r.ret]
          /\ nMut' = IF r.ret THEN nMut + 1 ELSE nMut
  /\ UNCHANGED <<m_geoMode, walk>>

Next ==
  \/ Load
  \/ CreateNew720KImage
  \/ ReadRootDirectory
  \/ ReadFile
  \/ GetClusterChain
  \/ GetNextCluster
  \/ InjectFile
  \/ DeleteFile

Spec == Init /\ [][Next]_vars

(***************************************************************************)
(* Properties                                                              *)
(***************************************************************************)
Injected == last.op = "injectFile" /\ last.retOk

Deleted == last.op = "deleteFile" /\ last.retOk

\* the free capacity the engine reports for the buffer a call started from
FreeCapacityBefore == getDiskStats(last.pre, last.preMode).freeBytes

\* the record injectFile has just written
InjectedRecord ==
  Rec(m_image, ROOT_SECTOR * SECTOR_SIZE + firstFreeSlot(last.pre) * 32)

InjectedData == [size |-> last.argInput.file.size, b |-> last.argInput.file.b]

\* C1: after injectFile returns true for content that fits the free capacity,
\* readRoot lists the new entry and readFile on it returns the injected bytes
C1_InjectReadRoundTrip ==
  (Injected /\ last.argInput.file.size <= FreeCapacityBefore) =>
    LET rr == readRootDirectory(m_image)
    IN /\ \E i \in DOMAIN rr.entries : rr.entries[i] = InjectedRecord
       /\ readFile(m_image, rr.mode, InjectedRecord) = InjectedData

\* C2: after deleteFile(entry) returns true, readRoot lists no entry equal to
\* the deleted one and every cluster of its former chain decodes to 0x000
C2_DeleteRemovesEntry ==
  Deleted =>
    LET rr == readRootDirectory(m_image)
        chain == getClusterChain(last.pre, getStartCluster(last.argEntry))
    IN /\ \A i \in DOMAIN rr.entries : rr.entries[i] # last.argEntry
       /\ \A k \in DOMAIN chain :
            fatDecode(m_image, FAT_SECTOR * SECTOR_SIZE, chain[k]) = 0

\* the FAT layout the BPB of the image describes (that of the 720K default
\* when readRoot rejects the BPB)
GeomReserved(img) ==
  LET le == readLE16(img, 14)
  IN IF bpbRootOffset(img) = 0 THEN 1
     ELSE IF le = 0 \/ le > 500 THEN readBE16(img, 14) ELSE le

GeomFatSize(img) ==
  LET le == readLE16(img, 22)
  IN IF bpbRootOffset(img) = 0 THEN 5
     ELSE IF le = 0 \/ le > 500 THEN readBE16(img, 22) ELSE le

GeomFatCount(img) == IF bpbRootOffset(img) = 0 THEN 2 ELSE Byte(img, 16)

\* the bytes of n sectors from sector first, by offset in the region
Region(img, first, n) ==
  LET lo == first * SECTOR_SIZE
      ks == {x \in DOMAIN img.b : x >= lo /\ x < lo + n * SECTOR_SIZE}
  IN [x \in {y - lo : y \in ks} |-> img.b[x + lo]]

\* C3: right after an injectFile or deleteFile that changed the image, the
\* secondary FAT (at reservedSectors + sectorsPerFat) equals the primary FAT
\* over the whole sectorsPerFat region
C3_FatMirrorsIdentical ==
  (last.op \in {"injectFile", "deleteFile"} /\ m_image # last.pre
     /\ GeomFatCount(m_image) = 2) =>
    Region(m_image, GeomReserved(m_image) + GeomFatSize(m_image), GeomFatSize(m_image))
      = Region(m_image, GeomReserved(m_image), GeomFatSize(m_image))

\* C4: when injectFile or deleteFile returns false the image buffer is
\* byte for byte what it was before the call
C4_FalseLeavesImage ==
  (last.op \in {"injectFile", "deleteFile"} /\ ~last.retOk) => m_image = last.pre

\* injectFile has refused a readable file of allowed size: no root slot was free
C4_Witness ==
  /\ last.op = "injectFile"
  /\ ~last.retOk
  /\ last.argInput.file.ok
  /\ last.argInput.file.size <= INJECT_MAX
  /\ firstFreeSlot(last.pre) = -1
  /\ m_image = last.pre

\* C5: injectFile returns false whenever the content is larger than the free
\* capacity of the image at the time of the call
C5_RejectsOverCapacity ==
  (last.op = "injectFile" /\ last.argInput.file.ok
     /\ last.argInput.file.size > FreeCapacityBefore) => ~last.retOk

\* C6: loading a non-empty buffer shorter than 512 bytes is signalled as a
\* failure and leaves the buffer empty, so isLoaded() is false
C6_ShortLoadLeavesEmpty ==
  (last.op = "load" /\ last.argNum > 0 /\ last.argNum < SECTOR_SIZE) =>
    (last.threw /\ ~isLoaded)

(***************************************************************************)
(* Geometry resolution over a range of BPBs: readRootDirectory applied to  *)
(* images that differ in the reserved-sector, FAT-count, sectors-per-FAT   *)
(* and root-entry fields, with and without a directory signature.          *)
(***************************************************************************)
BpbReservedFields == {<<0, 0>>, <<1, 0>>, <<9, 0>>, <<10, 0>>, <<0, 1>>, <<0, 2>>, <<244, 1>>, <<245, 1>>}

BpbFatCounts == {0, 1, 2, 3}

BpbFatSizeFields == {<<0, 0>>, <<3, 0>>, <<5, 0>>, <<0, 5>>}

BpbRootFields == {<<112, 0>>, <<100, 0>>, <<0, 100>>, <<2, 0>>}

BpbSignatureSectors == {0, 7}

\* the directory put at the signature sector: GAME.PRG, a volume label, a
\* deleted record, NEXT.BIN, a record with a control byte in its name, LAST.BIN
SigDirectory(off) ==
  DirRecord(off, <<71, 65, 77, 69, 32, 32, 32, 32, 80, 82, 71>>, 32, 2, 600) @@
  DirRecord(off + 32, <<68, 73, 83, 75, 78, 65, 77, 69, 32, 32, 32>>, 8, 0, 0) @@
  DirRecord(off + 64, <<229, 69, 76, 32, 32, 32, 32, 32, 84, 88, 84>>, 32, 3, 10) @@
  DirRecord(off + 96, <<78, 69, 88, 84, 32, 32, 32, 32, 66, 73, 78>>, 32, 4, 700) @@
  DirRecord(off + 128, <<66, 1, 68, 32, 32, 32, 32, 32, 66, 73, 78>>, 32, 5, 10) @@
  DirRecord(off + 160, <<76, 65, 83, 84, 32, 32, 32, 32, 66, 73, 78>>, 32, 6, 10)

\* a record at sector 11 whose name (_HIDDEN.TXT) is no directory signature
PlainRecord ==
  DirRecord(ROOT_SECTOR * SECTOR_SIZE, <<95, 72, 73, 68, 68, 69, 78, 32, 84, 88, 84>>, 32, 7, 40)

ImgBpb(reserved, fatCount, fatSize, maxRoot, sig) ==
  Poke(Blank(ImageSectors * SECTOR_SIZE),
       BpbBytes(<<0, 2>>, 2, reserved, fatCount, maxRoot, <<ImageSectors, 0>>, 249, fatSize) @@
       PlainRecord @@
       (IF sig = 0 THEN EmptyBytes ELSE SigDirectory(sig * SECTOR_SIZE)))

BpbImages ==
  {ImgBpb(r, c, f, m, g) : r \in BpbReservedFields, c \in BpbFatCounts,
                           f \in BpbFatSizeFields, m \in BpbRootFields,
                           g \in BpbSignatureSectors}

InitGeom ==
  /\ m_image \in BpbImages
  /\ m_geoMode = "Unknown"
  /\ nMut = 0
  /\ walk = WalkIdle
  /\ last = Replaced("load", ImageSectors * SECTOR_SIZE, FALSE)

NextGeom == ReadRootDirectory

SpecGeom == InitGeom /\ [][NextGeom]_vars

\* the BPB fields as the specification reads them: little-endian, or all
\* big-endian when the little-endian reserved count is 0 or above 500
BpbSwapped(img) == readLE16(img, 14) = 0 \/ readLE16(img, 14) > 500

BpbReserved(img) == IF BpbSwapped(img) THEN readBE16(img, 14) ELSE readLE16(img, 14)

BpbFatSize(img) == IF BpbSwapped(img) THEN readBE16(img, 22) ELSE readLE16(img, 22)

BpbRootEntries(img) == IF BpbSwapped(img) THEN readBE16(img, 17) ELSE readLE16(img, 17)

BpbDataStart(img) ==
  BpbReserved(img) + Byte(img, 16) * BpbFatSize(img)
    + ((BpbRootEntries(img) * 32 + 511) \div 512)

BpbValidates(img) == Byte(img, 16) \in {1, 2} /\ BpbFatSize(img) > 0

RootWasRead == last.op = "readRootDirectory" /\ isLoaded

\* C7 as stated: every image whose BPB has 1 or 2 FATs and a positive
\* sectors-per-FAT resolves to the BPB mode with the data region at
\* reserved + fatCount*sectorsPerFat + ceil(rootEntryCount*32/512)
C7_Original ==
  (RootWasRead /\ BpbValidates(m_image)) =>
    /\ m_geoMode = "BPB"
    /\ clusterOffset(m_image, m_geoMode, 2) = BpbDataStart(m_image) * SECTOR_SIZE

\* C7: every image whose BPB has a reserved count of 1..9, 1 or 2 FATs and a
\* positive sectors-per-FAT resolves to the BPB mode, and clusterOffset puts
\* the data region at reserved + fatCount*sectorsPerFat + ceil(rootEntryCount*32/512)
C7_BpbGeometry ==
  (RootWasRead /\ BpbValidates(m_image)
     /\ BpbReserved(m_image) >= 1 /\ BpbReserved(m_image) <= 9) =>
    /\ m_geoMode = "BPB"
    /\ clusterOffset(m_image, m_geoMode, 2) = BpbDataStart(m_image) * SECTOR_SIZE

\* readRoot has resolved a big-endian BPB whose root directory does not fill
\* a whole number of sectors
C7_Witness ==
  /\ RootWasRead
  /\ BpbValidates(m_image)
  /\ BpbSwapped(m_image)
  /\ BpbReserved(m_image) = 2
  /\ BpbRootEntries(m_image) % 16 # 0
  /\ m_geoMode = "BPB"

\* the first sector (from 1) that carries the directory signature, or 0
FirstSignatureSector(img) ==
  LET S == {t \in 1..((img.size \div SECTOR_SIZE) - 1) : hasSignature(img, t * SECTOR_SIZE)}
  IN IF S = {} THEN 0 ELSE CHOOSE t \in S : \A u \in S : t <= u

GuessedAt(img) ==
  IF img.size >= SECTOR_SIZE /\ bpbRootOffset(img) = 0 THEN FirstSignatureSector(img) ELSE 0

\* C8: when the BPB is rejected and the first sector with a directory
\* signature is s, readRoot resolves to the heuristic mode, reads the root
\* directory from sector s, and the data-region start depends on s (an image
\* guessed at another sector gets another data-region start)
C8_GuessFromScan ==
  (RootWasRead /\ GuessedAt(m_image) # 0) =>
    /\ m_geoMode = "HatariGuess"
    /\ last.retEntries = rootEntries(m_image, GuessedAt(m_image) * SECTOR_SIZE)
    /\ \A other \in Images :
         (GuessedAt(other) # 0 /\ GuessedAt(other) # GuessedAt(m_image)) =>
           dataStartSector(other, "HatariGuess") # dataStartSector(m_image, m_geoMode)

\* C9: the chain walk returns a chain no longer than the number of sectors
\* of the image
C9_ChainBounded ==
  last.op = "getClusterChain" => Len(last.retChain) <= m_image.size \div SECTOR_SIZE

\* the three bytes at the offset getNextCluster takes as the start of the FAT
FatBase3(img) ==
  <<Byte(img, fat1Offset(img)), Byte(img, fat1Offset(img) + 1), Byte(img, fat1Offset(img) + 2)>>

NextClusterOf3 ==
  /\ last.op = "getNextCluster"
  /\ FatBase3(m_image) = <<3, 64, 0>>
  /\ nextClusterInBounds(m_image, last.argNum)

\* C10 as stated: with FAT bytes 03 40 00, nextCluster(0) is 0x003 and
\* nextCluster(1) is 0x000
C10_Original ==
  NextClusterOf3 => /\ (last.argNum = 0 => last.retNum = 3)
                    /\ (last.argNum = 1 => last.retNum = 0)

\* C10: with FAT bytes 03 40 00, nextCluster(0) is 0x003 and nextCluster(1)
\* is 0x004
C10_Decode ==
  NextClusterOf3 => /\ (last.argNum = 0 => last.retNum = 3)
                    /\ (last.argNum = 1 => last.retNum = 4)

\* getNextCluster(1) has been answered from the bytes 03 40 00
C10_Witness == NextClusterOf3 /\ last.argNum = 1 /\ last.retNum = 4

\* the packed entry of cluster c lies outside the primary FAT region of the image
OutsideFat(img, c) == (c * 3) \div 2 + 1 >= GeomFatSize(img) * SECTOR_SIZE

\* C11: a FAT lookup for a cluster whose packed entry lies outside the
\* primary FAT region reads nothing there: getNextCluster returns 0xFFF and
\* a chain walk ends the chain at that cluster
C11_FatLookupBounded ==
  /\ (last.op = "getNextCluster" /\ OutsideFat(m_image, last.argNum)) => last.retNum = 4095
  /\ last.op = "getClusterChain" =>
       \A k \in DOMAIN last.retChain :
         OutsideFat(m_image, last.retChain[k]) => k = Len(last.retChain)

\* the number of root slots the geometry gives: the BPB's root-entry count
\* when readRoot accepts the BPB, 112 otherwise
RootCount(img) == IF bpbRootOffset(img) # 0 THEN BpbRootEntries(img) ELSE ROOT_SLOTS

\* a record whose 8 name bytes hold a byte that is neither a space nor
\* printable ASCII
BadName(img, p) ==
  \E j \in 0..7 : Byte(img, p + j) # 32 /\ ~(Byte(img, p + j) >= 32 /\ Byte(img, p + j) <= 126)

\* the listing of a directory of n slots at offset off: the records before
\* the first end mark or bad name, without the deleted ones and the labels
ExpectedListing(img, off, n) ==
  LET fit == IF off + 32 > img.size THEN 0 ELSE (img.size - off) \div 32
      slots == IF n < fit THEN n ELSE fit
      stops == {i \in 0..(slots - 1) :
                  \/ Byte(img, off + i * 32) = 0
                  \/ (Byte(img, off + i * 32) # 229 /\ BadName(img, off + i * 32))}
      first == IF stops = {} THEN slots ELSE CHOOSE i \in stops : \A j \in stops : i <= j
      IsListed(e) == e[1] # 229 /\ (e[12] \div 8) % 2 = 0
  IN SelectSeq([k \in 1..first |-> Rec(img, off + (k - 1) * 32)], IsListed)

C16_RootSlots ==
  RootWasRead =>
    last.retEntries = ExpectedListing(m_image, readRootDirectory(m_image).foundOffset,
                                      RootCount(m_image))

\* no sector that readRoot scans carries the directory signature
NoSignatureScanned(img) ==
  \A t \in 1..(SCAN_LIMIT - 1) :
    t * SECTOR_SIZE + 32 <= img.size => ~hasSignature(img, t * SECTOR_SIZE)

DefaultedRoot == RootWasRead /\ bpbRootOffset(m_image) = 0 /\ NoSignatureScanned(m_image)

\* C18: when the BPB is rejected and the scan finds no signature, readRoot
\* lists the directory at sector 11, the mode is BPB with 2 sectors per
\* cluster, and nothing is thrown
C18_DefaultSector11 ==
  DefaultedRoot =>
    /\ last.retEntries = ExpectedListing(m_image, ROOT_SECTOR * SECTOR_SIZE, ROOT_SLOTS)
    /\ m_geoMode = "BPB"
    /\ sectorsPerCluster(m_geoMode) = 2
    /\ ~last.threw

\* readRoot has defaulted to sector 11 and listed the record found there
C18_Witness == DefaultedRoot /\ Len(last.retEntries) = 1 /\ m_geoMode = "BPB"

(***************************************************************************)
(* The boot checksum over a range of boot sectors: validateBootChecksum    *)
(* applied to the created image, to that image with one boot-sector byte   *)
(* changed, and to 512-byte buffers with chosen first and last words.      *)
(***************************************************************************)
\* the changes made to one byte
ByteDeltas == {1, 128, 255}

FlippedImages ==
  {Poke(createNew720KImage, o :> ((Byte(createNew720KImage, o) + d) % 256)) :
     o \in 0..(SECTOR_SIZE - 1), d \in ByteDeltas}

FirstWordHigh == {0, 18, 255}

FirstWordLow == {0, 52, 255}

LastWordHigh == {0, 18, 19}

LastWordLow == {0, 52, 53}

WordImages ==
  {Poke(Blank(SECTOR_SIZE), Bytes(0, <<h1, l1>>) @@ Bytes(SECTOR_SIZE - 2, <<h2, l2>>)) :
     h1 \in FirstWordHigh, l1 \in FirstWordLow, h2 \in LastWordHigh, l2 \in LastWordLow}

ValidateBootChecksum ==
  /\ m_image.size >= SECTOR_SIZE
  /\ last' = [Call("validateBootChecksum") EXCEPT !.retOk = validateBootChecksum(m_image)]
  /\ UNCHANGED <<m_image, m_geoMode, nMut, walk>>

InitSum ==
  /\ m_image \in FlippedImages \cup WordImages
  /\ m_geoMode = "Unknown"
  /\ nMut = 0
  /\ walk = WalkIdle
  /\ last = Replaced("load", m_image.size, FALSE)

NextSum ==
  \/ CreateNew720KImage
  \/ ValidateBootChecksum

SpecSum == InitSum /\ [][NextSum]_vars

Validated == last.op = "validateBootChecksum"

\* the buffer is the created image but for one byte of its boot sector
OneBootByteChanged ==
  LET diff == {o \in DOMAIN m_image.b \cup DOMAIN createNew720KImage.b :
                 Byte(m_image, o) # Byte(createNew720KImage, o)}
  IN /\ m_image.size = createNew720KImage.size
     /\ Cardinality(diff) = 1
     /\ \A o \in diff : o < SECTOR_SIZE

\* C13: validateBootChecksum is true on the image createNew720KImage makes,
\* and false on that image with any one byte of its boot sector changed
C13_CreatedChecksum ==
  Validated =>
    /\ (m_image = createNew720KImage => last.retOk)
    /\ (OneBootByteChanged => ~last.retOk)

\* the checksum has been refused after a change to the low checksum byte
C13_Witness ==
  /\ Validated
  /\ OneBootByteChanged
  /\ Byte(m_image, 511) # Byte(createNew720KImage, 511)
  /\ ~last.retOk

\* the sum of the bytes at the offsets S, each weighed by its place in its
\* big-endian word, without wrapping
RECURSIVE WeighedSum(_, _)
WeighedSum(img, S) ==
  IF S = {} THEN 0
  ELSE LET x == CHOOSE y \in S : TRUE
       IN (IF x % 2 = 0 THEN 256 ELSE 1) * img.b[x] + WeighedSum(img, S \ {x})

\* the sum of the 256 big-endian words of the first sector (bytes that are
\* zero add nothing)
BeWordSum(img) == WeighedSum(img, {x \in DOMAIN img.b : x < SECTOR_SIZE})

\* C14: validateBootChecksum is true exactly when the sum of the 256
\* big-endian words of the sector is 0x1234 modulo 2^16, and it changes
\* neither the buffer nor the mode
C14_ChecksumSum ==
  Validated =>
    /\ last.retOk <=> (BeWordSum(m_image) % 65536 = BOOT_CHECKSUM_TARGET)
    /\ m_image = last.pre
    /\ m_geoMode = last.preMode

\* the checksum has been accepted for a sector whose words sum past 2^16
C14_Witness == Validated /\ last.retOk /\ BeWordSum(m_image) > 65535

\* readFile has been called for a file entry of a size it accepts
FileWasRead ==
  /\ last.op = "readFile"
  /\ ~isDirectory(last.argEntry)
  /\ getFileSize(last.argEntry) >= 1
  /\ getFileSize(last.argEntry) <= READ_MAX

\* the chain of the entry that was read, and the bytes of one cluster
ReadChain == getClusterChain(m_image, getStartCluster(last.argEntry))

ClusterBytes == sectorsPerCluster(m_geoMode) * SECTOR_SIZE

\* every cluster of the chain lies inside the image
ChainInImage(chain) ==
  \A k \in DOMAIN chain :
    clusterOffset(m_image, m_geoMode, chain[k]) + ClusterBytes <= m_image.size

\* the first min(size, chain length * cluster bytes) bytes of the clusters of
\* the chain, put one after the other in chain order
ExpectedRead(chain, size) ==
  LET cb == ClusterBytes
      avail == Len(chain) * cb
      want == IF size < avail THEN size ELSE avail
      used == (want + cb - 1) \div cb
      offs == [k \in 1..used |-> clusterOffset(m_image, m_geoMode, chain[k])]
      at(k) == {(k - 1) * cb + (x - offs[k]) :
                  x \in {y \in DOMAIN m_image.b : y >= offs[k] /\ y < offs[k] + cb}}
      P == {p \in UNION {at(k) : k \in 1..used} : p < want}
  IN [size |-> want, b |-> [p \in P |-> m_image.b[offs[(p \div cb) + 1] + (p % cb)]]]

SubRecords(off, n) ==
  [x \in {off + 32 * i + k : i \in 0..(n - 1), k \in 0..11} |->
     LET i == (x - off) \div 32
         k == (x - off) % 32
     IN IF k = 11 THEN ATTR_ARCHIVE
        ELSE <<82, 65 + (i \div 16), 65 + (i % 16), 32, 32, 32, 32, 32, 84, 88, 84>>[k + 1]]

\* the boot sector start of a TOS disk: a branch and the loader name
BootText == Bytes(0, <<96, 56, 76, 111, 97, 100, 101, 114, 49, 50, 51>>)

\* hatari: zeroed reserved count (the scan finds the root at sector 11);
\* n records in cluster 3, the second made a volume label when label is set;
\* more: the chain goes on to cluster 6, which holds MORE.TXT
SubImage(hatari, n, more, label, boot) ==
  LET data == IF hatari THEN HATARI_DATA_SECTOR ELSE DATA_SECTOR
      spc == IF hatari THEN 1 ELSE 2
      at(c) == (data + (c - 2) * spc) * SECTOR_SIZE
      base == Poke(Blank(ImageSectors * SECTOR_SIZE),
                BpbBytes(<<0, 2>>, spc, IF hatari THEN <<0, 0>> ELSE <<1, 0>>, 2, <<112, 0>>,
                         <<ImageSectors, 0>>, 249, <<5, 0>>) @@
                FatHead(512) @@
                (IF boot THEN BootText ELSE EmptyBytes) @@
                DirRecord(ROOT_SECTOR * SECTOR_SIZE,
                          <<83, 85, 66, 32, 32, 32, 32, 32, 32, 32, 32>>, 16, 3, 0) @@
                (IF label /\ n >= 2 THEN (at(3) + 32 + 11) :> 8 ELSE EmptyBytes) @@
                SubRecords(at(3), n) @@
                (IF more
                 THEN DirRecord(at(6), <<77, 79, 82, 69, 32, 32, 32, 32, 84, 88, 84>>, 32, 0, 0)
                 ELSE EmptyBytes))
      f1 == fatStore(base, 512, 3, IF more THEN 6 ELSE 4095)
      f2 == IF more THEN fatStore(f1, 512, 6, 4095) ELSE f1
      f3 == fatStore(f2, 512, 4, 1)
  IN syncFat2(f3)

SubFillings == {0, 3, 16, 32}

SubImages ==
  {SubImage(h, n, m, l, b) : h \in BOOLEAN, n \in SubFillings, m \in BOOLEAN,
                             l \in BOOLEAN, b \in BOOLEAN}

\* the calls whose 32 slots lie inside the buffer, or that return at once
SubReadsInside(c) ==
  LET offset == clusterOffset(m_image, m_geoMode, c)
  IN offset + DIRENT_SIZE > m_image.size \/ offset + SUB_SLOTS * 32 <= m_image.size

ReadSubDirectory ==
  /\ \E c \in {0, 1} \cup {getStartCluster(e) : e \in {d \in KnownEntries : isDirectory(d)}} :
       /\ SubReadsInside(c)
       /\ last' = [Call("readSubDirectory") EXCEPT
                     !.argNum = c,
                     !.retEntries = readSubDirectory(m_image, m_geoMode, c)]
  /\ UNCHANGED <<m_image, m_geoMode, nMut, walk>>

InitSub ==
  /\ m_image \in SubImages
  /\ m_geoMode = "Unknown"
  /\ nMut = 0
  /\ walk = WalkIdle
  /\ last = Replaced("load", m_image.size, FALSE)

NextSub ==
  \/ ReadRootDirectory
  \/ ReadSubDirectory
  \/ GetClusterChain

SpecSub == InitSub /\ [][NextSub]_vars

SubWasRead == last.op = "readSubDirectory"

\* the listing of the directory whose chain starts at cluster start: the
\* slots of each cluster of the chain, in chain order, under the rules of
\* the root listing
ExpectedSub(img, mode, start) ==
  LET chain == getClusterChain(img, start)
      per == (sectorsPerCluster(mode) * SECTOR_SIZE) \div 32
      total == Len(chain) * per
      slotOff == [i \in 0..(total - 1) |->
                    clusterOffset(img, mode, chain[(i \div per) + 1]) + (i % per) * 32]
      stops == {i \in 0..(total - 1) :
                  \/ slotOff[i] + 32 > img.size
                  \/ Byte(img, slotOff[i]) = 0
                  \/ (Byte(img, slotOff[i]) # 229 /\ BadName(img, slotOff[i]))}
      first == IF stops = {} THEN total ELSE CHOOSE i \in stops : \A j \in stops : i <= j
      IsListed(e) == e[1] # 229 /\ (e[12] \div 8) % 2 = 0
  IN SelectSeq([k \in 1..first |-> Rec(img, slotOff[k - 1])], IsListed)

\* C17: readSub(startCluster) returns the records of every cluster of the
\* chain from startCluster, in chain order, each cluster read over its own
\* sectorsPerCluster*512 bytes only, under the rules of readRoot
C17_SubFollowsChain ==
  (SubWasRead /\ last.argNum >= 2) => last.retEntries = ExpectedSub(m_image, m_geoMode, last.argNum)

\* C19: no cluster below 2 is dereferenced: readSub(0) and readSub(1) return
\* an empty list, and a chain walk returns no cluster below 2
C19_NoClusterBelow2 ==
  /\ (SubWasRead /\ last.argNum < 2) => last.retEntries = <<>>
  /\ last.op = "getClusterChain" => \A k \in DOMAIN last.retChain : last.retChain[k] >= 2

(***************************************************************************)
(* FAT entry writes of injectFile and deleteFile                           *)
(***************************************************************************)
\* the clusters whose packed entry lies wholly in the first FAT copy
FatClusters == 0..(((FAT_MIRROR_SECTORS * SECTOR_SIZE) * 2) \div 3 - 1)

Fat1(img, c) == fatDecode(img, FAT_SECTOR * SECTOR_SIZE, c)

\* the number of clusters injectFile links for the file of the last call
LinkedCount == (last.argInput.file.size + 1023) \div 1024

\* the value injectFile writes for cluster c of 2..LinkedCount+1
LinkOf(c) == IF c = LinkedCount + 1 THEN 4095 ELSE c + 1

\* the clusters deleteFile wipes: those met by following the links of img
\* from cluster c until an end mark, a free entry or a cluster out of range
RECURSIVE WipedFrom(_, _, _)
WipedFrom(img, c, seen) ==
  IF c < 2 \/ c >= 4080 \/ c \in seen THEN seen
  ELSE LET next == Fat1(img, c)
       IN IF next >= 4088 \/ next = 0 THEN seen \cup {c}
          ELSE WipedFrom(img, next, seen \cup {c})

\* C20: after injectFile each linked cluster decodes to the value written
\* for it (the next cluster, or 0xFFF for the last) and after deleteFile
\* each wiped cluster decodes to 0, while every other cluster of the FAT,
\* the neighbour sharing a byte included, decodes as before the call
C20_FatWriteFrame ==
  /\ Injected =>
       \A c \in FatClusters :
         Fat1(m_image, c) = IF c >= 2 /\ c <= LinkedCount + 1 THEN LinkOf(c)
                            ELSE Fat1(last.pre, c)
  /\ Deleted =>
       LET wiped == WipedFrom(last.pre, getStartCluster(last.argEntry), {})
       IN \A c \in FatClusters :
            Fat1(m_image, c) = IF c \in wiped THEN 0 ELSE Fat1(last.pre, c)

\* an injection rewrote the entry of a cluster whose byte-sharing neighbour
\* held a link and is not itself rewritten
C20_Witness ==
  /\ Injected
  /\ LinkedCount >= 1
  /\ Fat1(last.pre, LinkedCount + 1) # 4095
  /\ Fat1(m_image, LinkedCount + 1) = 4095
  /\ Fat1(last.pre, LinkedCount + 2) # 0
  /\ Fat1(m_image, LinkedCount + 2) = Fat1(last.pre, LinkedCount + 2)
  /\ LinkedCount % 2 = 1

(***************************************************************************)
(* The tree builder of AtariFileSystemModel: buildTree lists the root and  *)
(* calls buildChildren for each directory entry; buildChildren lists the   *)
(* directory with readSubDirectory and calls itself for each directory     *)
(* entry whose name does not start with a dot.                             *)
(***************************************************************************)
\* the test of buildChildren on getFilename(): a character that is neither
\* a letter, a digit, a dot nor white space (getFilename keeps the legal
\* characters of the 11 name bytes and adds a dot)
Scrambled(e) ==
  \E k \in 1..11 :
    /\ e[k] > 32 /\ e[k] < 127
    /\ ~(e[k] \in 48..57 \/ e[k] \in 65..90 \/ e[k] \in 97..122 \/ e[k] = 46)

\* whether the loop calls buildChildren for entry e and that call lists a directory
Descends(f, e) ==
  /\ isDirectory(e)
  /\ f.dir # 0 => (~Scrambled(e) /\ e[1] # 46)
  /\ getStartCluster(e) >= 2

\* the images of the tree builder: the root holds FILE.TXT and the directory
\* SUB (cluster 3), which holds the entries . and .. and then, by kind,
\*   1: A.TXT            2: DEEP (cluster 5), which holds B.TXT
\*   3: SELF, a directory whose start cluster is 3, that of SUB itself
\*   4: DEEP (cluster 5), which holds BACK, a directory whose start cluster is 3
TreeImage(hatari, kind, files) ==
  LET data == IF hatari THEN HATARI_DATA_SECTOR ELSE DATA_SECTOR
      spc == IF hatari THEN 1 ELSE 2
      at(c) == (data + (c - 2) * spc) * SECTOR_SIZE
      dots(c, up) ==
        DirRecord(at(c), <<46, 32, 32, 32, 32, 32, 32, 32, 32, 32, 32>>, 16, c, 0) @@
        DirRecord(at(c) + 32, <<46, 46, 32, 32, 32, 32, 32, 32, 32, 32, 32>>, 16, up, 0)
      deep == DirRecord(at(3) + 64, <<68, 69, 69, 80, 32, 32, 32, 32, 32, 32, 32>>, 16, 5, 0)
      inSub ==
        IF kind = 1
          THEN DirRecord(at(3) + 64, <<65, 32, 32, 32, 32, 32, 32, 32, 84, 88, 84>>, 32, 0, 0)
        ELSE IF kind = 2
          THEN deep @@ dots(5, 3) @@
               DirRecord(at(5) + 64, <<66, 32, 32, 32, 32, 32, 32, 32, 84, 88, 84>>, 32, 0, 0)
        ELSE IF kind = 3
          THEN DirRecord(at(3) + 64, <<83, 69, 76, 70, 32, 32, 32, 32, 32, 32, 32>>, 16, 3, 0)
        ELSE deep @@ dots(5, 3) @@
             DirRecord(at(5) + 64, <<66, 65, 67, 75, 32, 32, 32, 32, 32, 32, 32>>, 16, 3, 0)
      base == Poke(Blank(ImageSectors * SECTOR_SIZE),
                BpbBytes(<<0, 2>>, spc, IF hatari THEN <<0, 0>> ELSE <<1, 0>>, 2, <<112, 0>>,
                         <<ImageSectors, 0>>, 249, <<5, 0>>) @@
                FatHead(512) @@
                DirRecord(ROOT_SECTOR * SECTOR_SIZE,
                          <<83, 85, 66, 32, 32, 32, 32, 32, 32, 32, 32>>, 16, 3, 0) @@
                (IF files >= 1
                 THEN DirRecord(ROOT_SECTOR * SECTOR_SIZE + 32,
                                <<70, 73, 76, 69, 32, 32, 32, 32, 84, 88, 84>>, 32, 2, 100)
                 ELSE EmptyBytes) @@
                (IF files >= 2
                 THEN DirRecord(ROOT_SECTOR * SECTOR_SIZE + 64,
                                <<70, 73, 76, 69, 50, 32, 32, 32, 84, 88, 84>>, 32, 6, 100)
                 ELSE EmptyBytes) @@
                dots(3, 0) @@ inSub)
      f1 == fatStore(base, 512, 3, 4095)
      f2 == fatStore(f1, 512, 5, 4095)
      f3 == fatStore(fatStore(f2, 512, 2, 4095), 512, 6, 4095)
  IN syncFat2(f3)

TreeImages == {TreeImage(h, k, n) : h \in BOOLEAN, k \in 1..4, n \in 0..2}

\* buildTree up to its loop: the root is read, which resolves the geometry
BuildTree ==
  /\ walk.status = "idle"
  /\ CanRead
  /\ IF isLoaded
     THEN /\ m_geoMode' = readRootDirectory(m_image).mode
          /\ walk' = [status |-> "building",
                       stack |-> <<[dir |-> 0, i |-> 1,
                                    entries |-> readRootDirectory(m_image).entries]>>]
     ELSE /\ m_geoMode' = m_geoMode
          /\ walk' = [status |-> "built", stack |-> <<>>]
  /\ last' = Call("buildTree")
  /\ UNCHANGED <<m_image, nMut>>

\* one round of the loop of the innermost pending call: it returns at the
\* end of its entries, or visits the next entry and calls buildChildren
BuildChildren ==
  /\ walk.status = "building"
  /\ LET depth == Len(walk.stack)
         f == walk.stack[depth]
     IN IF f.i > Len(f.entries)
        THEN walk' = [status |-> IF depth = 1 THEN "built" ELSE "building",
                      stack |-> SubSeq(walk.stack, 1, depth - 1)]
        ELSE LET e == f.entries[f.i]
                 on == [walk.stack EXCEPT ![depth].i = f.i + 1]
                 sub == getStartCluster(e)
             IN IF Descends(f, e)
                THEN /\ depth < MaxDepth
                     /\ walk' = [walk EXCEPT
                                   !.stack = Append(on,
                                     [dir |-> sub, i |-> 1,
                                      entries |-> readSubDirectory(m_image, m_geoMode, sub)])]
                ELSE walk' = [walk EXCEPT !.stack = on]
  /\ UNCHANGED <<m_image, m_geoMode, nMut, last>>

\* the nested call for which no stack is left
StackOverflow ==
  /\ walk.status = "building"
  /\ LET depth == Len(walk.stack)
         f == walk.stack[depth]
     IN /\ depth = MaxDepth
        /\ f.i <= Len(f.entries)
        /\ Descends(f, f.entries[f.i])
  /\ walk' = [walk EXCEPT !.status = "overflow"]
  /\ UNCHANGED <<m_image, m_geoMode, nMut, last>>

InitTree ==
  /\ m_image \in TreeImages
  /\ m_geoMode = "Unknown"
  /\ nMut = 0
  /\ walk = WalkIdle
  /\ last = Replaced("load", m_image.size, FALSE)

NextTree ==
  \/ BuildTree
  \/ BuildChildren
  \/ StackOverflow

\* a call of buildTree runs on until it returns: the rounds of its loops are
\* taken as long as one is possible; whether it is called at all is left open
SpecTree == InitTree /\ [][NextTree]_vars /\ WF_vars(BuildChildren \/ StackOverflow)

\* C21: building the directory tree terminates on every image, one whose
\* subdirectory holds a directory entry that points back at the subdirectory
\* or at one of its ancestors included
C21_TreeTerminates == (walk.status = "building") ~> (walk.status = "built")

(***************************************************************************)
(* The cached geometry mode across writes: a loaded image whose root is    *)
(* read and which injectFile and deleteFile then change.                   *)
(***************************************************************************)
InitMode ==
  /\ m_image \in {data \in Images : data.size >= DATA_SECTOR * SECTOR_SIZE}
  /\ m_geoMode = "Unknown"
  /\ nMut = 0
  /\ walk = WalkIdle
  /\ last = Replaced("load", m_image.size, FALSE)

NextMode ==
  \/ ReadRootDirectory
  \/ InjectFile
  \/ DeleteFile

SpecMode == InitMode /\ [][NextMode]_vars

\* load leaves the mode Unknown and only readRootDirectory assigns it here
ModeResolved == m_geoMode # "Unknown"

\* C22: once the root was read after the load, the cached geometry mode is
\* the mode that resolving the current image bytes gives, also after a
\* successful injectFile or deleteFile
C22_ModeIsFresh == ModeResolved => m_geoMode = readRootDirectory(m_image).mode

(***************************************************************************)
(* A created image and the files injected into it and deleted from it.     *)
(***************************************************************************)
\* the created image, blank or after good.txt (600 bytes) was injected
FreshImages ==
  {createNew720KImage, injectFile(createNew720KImage, PathGood, File600).img}

InitFresh ==
  /\ m_image \in FreshImages
  /\ m_geoMode = "BPB"
  /\ nMut = 0
  /\ walk = WalkIdle
  /\ last = Replaced("createNew720KImage", 0, FALSE)

NextFresh ==
  \/ ReadRootDirectory
  \/ ReadFile
  \/ InjectFile
  \/ DeleteFile

SpecFresh == InitFresh /\ [][NextFresh]_vars

\* the clusters of the chain of entry e
ChainSet(img, e) ==
  LET chain == getClusterChain(img, getStartCluster(e))
  IN {chain[k] : k \in DOMAIN chain}

\* C23: no cluster belongs to the chains of two files with non-zero size
\* that the root directory lists
C23_ChainsDisjoint ==
  LET es == readRootDirectory(m_image).entries
      files == {i \in DOMAIN es : ~isDirectory(es[i]) /\ getFileSize(es[i]) # 0}
  IN \A i, j \in files :
       i # j => ChainSet(m_image, es[i]) \cap ChainSet(m_image, es[j]) = {}

(***************************************************************************)
(* deleteFile on the entries of a tree: images whose subdirectory SUB      *)
(* (cluster 3) holds files next to those of the root, each file with a     *)
(* cluster of its own.                                                     *)
(***************************************************************************)
\* root: GAME.PRG (cluster 2), SUB, OTHER.DAT (cluster 6), and with again a
\* second record GAME.PRG (cluster 8); SUB: ., .., INNER.TXT (cluster 7) and
\* a file at cluster 5 that is named GAME.PRG when twin, else SAVE.PRG
TwinImage(twin, again) ==
  LET NameGame == <<71, 65, 77, 69, 32, 32, 32, 32, 80, 82, 71>>
      NameSave == <<83, 65, 86, 69, 32, 32, 32, 32, 80, 82, 71>>
      at(c) == (DATA_SECTOR + (c - 2) * 2) * SECTOR_SIZE
      root == ROOT_SECTOR * SECTOR_SIZE
      base == Poke(Blank(ImageSectors * SECTOR_SIZE),
                StdBpb @@ FatHead(512) @@
                DirRecord(root, NameGame, 32, 2, 600) @@
                DirRecord(root + 32, <<83, 85, 66, 32, 32, 32, 32, 32, 32, 32, 32>>, 16, 3, 0) @@
                DirRecord(root + 64, <<79, 84, 72, 69, 82, 32, 32, 32, 68, 65, 84>>, 32, 6, 300) @@
                (IF again THEN DirRecord(root + 96, NameGame, 32, 8, 500) ELSE EmptyBytes) @@
                DirRecord(at(3), <<46, 32, 32, 32, 32, 32, 32, 32, 32, 32, 32>>, 16, 3, 0) @@
                DirRecord(at(3) + 32, <<46, 46, 32, 32, 32, 32, 32, 32, 32, 32, 32>>, 16, 0, 0) @@
                DirRecord(at(3) + 64, IF twin THEN NameGame ELSE NameSave, 32, 5, 700) @@
                DirRecord(at(3) + 96, <<73, 78, 78, 69, 82, 32, 32, 32, 84, 88, 84>>, 32, 7, 200) @@
                (at(2) :> 21) @@ ((at(2) + 599) :> 22) @@
                (at(5) :> 51) @@ ((at(5) + 699) :> 52) @@
                (at(6) :> 61) @@ ((at(6) + 299) :> 62) @@
                (at(7) :> 71) @@ ((at(7) + 199) :> 72) @@
                (IF again THEN (at(8) :> 81) @@ ((at(8) + 499) :> 82) ELSE EmptyBytes))
      ends == fatStore(fatStore(fatStore(fatStore(fatStore(fatStore(base,
                512, 2, 4095), 512, 3, 4095), 512, 5, 4095), 512, 6, 4095), 512, 7, 4095),
                512, 8, IF again THEN 4095 ELSE 0)
  IN syncFat2(ends)

TwinImages == {TwinImage(t, a) : t \in BOOLEAN, a \in BOOLEAN}

InitTwin ==
  /\ m_image \in TwinImages
  /\ m_geoMode = "Unknown"
  /\ nMut = 0
  /\ walk = WalkIdle
  /\ last = Replaced("load", m_image.size, FALSE)

NextTwin ==
  \/ ReadRootDirectory
  \/ ReadSubDirectory
  \/ ReadFile
  \/ DeleteFile

SpecTwin == InitTwin /\ [][NextTwin]_vars

SeqSet(q) == {q[k] : k \in DOMAIN q}

\* the records that the root listing and the listings of its directories hold
TreeListing(img, mode) ==
  LET top == SeqSet(readRootDirectory(img).entries)
      dirs == {getStartCluster(d) : d \in {e \in top : isDirectory(e)}} \ {0, 1}
  IN top \cup UNION {SeqSet(readSubDirectory(img, mode, c)) : c \in dirs}

TreeFiles(img, mode) == {e \in TreeListing(img, mode) : ~isDirectory(e)}

\* no cluster belongs to the chains of two listed files
TreeDisjoint(img, mode) ==
  \A f, g \in TreeFiles(img, mode) :
    f # g => ChainSet(img, f) \cap ChainSet(img, g) = {}

\* C24: where the listed files have disjoint chains, a successful
\* deleteFile(e) leaves every other listed file listed and its content as
\* readFile returns it unchanged, also when e is an entry of a subdirectory
\* and a root record has the same 11-byte name
C24_DeleteOnlyThat ==
  (Deleted /\ TreeDisjoint(last.pre, last.preMode)) =>
    \A f \in TreeFiles(last.pre, last.preMode) \ {last.argEntry} :
      /\ f \in TreeListing(m_image, m_geoMode)
      /\ readFile(m_image, m_geoMode, f) = readFile(last.pre, last.preMode, f)

(***************************************************************************)
(* The root directory region of the writes and that of readRootDirectory   *)
(***************************************************************************)
\* the 11 name bytes injectFile gives the file of the last call
InjectedName ==
  leftJustified(left(toUpper(last.argInput.path.base), 8), 8) \o
  leftJustified(left(toUpper(last.argInput.path.suffix), 3), 3)

\* C25: whichever geometry the root listing resolves, after injectFile
\* returns true the root listing holds an entry with the injected 8.3 name
\* and size, and deleteFile returns true for every entry of the root
\* listing that is not a directory
C25_SameRootRegion ==
  /\ Injected =>
       \E e \in SeqSet(readRootDirectory(m_image).entries) :
         SubSeq(e, 1, 11) = InjectedName /\ getFileSize(e) = last.argInput.file.size
  /\ (/\ last.op = "deleteFile"
      /\ ~isDirectory(last.argEntry)
      /\ last.argEntry \in SeqSet(readRootDirectory(last.pre).entries)) => last.retOk

(***************************************************************************)
(* The chain-freeing loop of deleteFile over every way the FAT entries of  *)
(* clusters 2, 3 and 4 can link to each other.                             *)
(***************************************************************************)
\* the root holds F2.DAT, F3.DAT and F4.DAT, which start at clusters 2, 3, 4
LoopImage(l2, l3, l4) ==
  LET root == ROOT_SECTOR * SECTOR_SIZE
      base == Poke(Blank(ImageSectors * SECTOR_SIZE),
                StdBpb @@ FatHead(512) @@
                DirRecord(root, <<70, 50, 32, 32, 32, 32, 32, 32, 68, 65, 84>>, 32, 2, 100) @@
                DirRecord(root + 32, <<70, 51, 32, 32, 32, 32, 32, 32, 68, 65, 84>>, 32, 3, 100) @@
                DirRecord(root + 64, <<70, 52, 32, 32, 32, 32, 32, 32, 68, 65, 84>>, 32, 4, 100))
  IN syncFat2(fatStore(fatStore(fatStore(base, 512, 2, l2), 512, 3, l3), 512, 4, l4))

\* each link is free, a cluster below 2, one of clusters 2..4, or the end mark
LoopImages ==
  LET links == {0, 1, 2, 3, 4, 4095}
  IN {LoopImage(a, b, c) : a \in links, b \in links, c \in links}

InitLoop ==
  /\ m_image \in LoopImages
  /\ m_geoMode = "Unknown"
  /\ nMut = 0
  /\ walk = WalkIdle
  /\ last = Replaced("load", m_image.size, FALSE)

NextLoop ==
  \/ ReadRootDirectory
  \/ DeleteFile

SpecLoop == InitLoop /\ [][NextLoop]_vars

\* C26: the chain-freeing loop of deleteFile ends for every FAT content: it
\* makes one round for each cluster on the path from the start cluster, and
\* one more when the path comes back to a cluster it has wiped, which then
\* reads 0x000; each cluster on the path is free afterwards
C26_DeleteLoopEnds ==
  Deleted =>
    LET path == WipedFrom(last.pre, getStartCluster(last.argEntry), {})
        rounds == deleteRounds(last.pre, last.argEntry)
    IN /\ rounds <= Cardinality(path) + 1
       /\ rounds >= Cardinality(path)
       /\ \A c \in path : Fat1(m_image, c) = 0

\* a deletion whose path of two or more clusters came back to a wiped cluster
C26_Witness ==
  /\ Deleted
  /\ LET path == WipedFrom(last.pre, getStartCluster(last.argEntry), {})
     IN /\ Cardinality(path) >= 2
        /\ deleteRounds(last.pre, last.argEntry) = Cardinality(path) + 1
        /\ \A c \in path : Fat1(last.pre, c) \in path /\ Fat1(m_image, c) = 0

(***************************************************************************)
(* The root slots that injectFile consumes                                 *)
(***************************************************************************)
SlotByte(img, i) == Byte(img, ROOT_SECTOR * SECTOR_SIZE + (i * 32))

\* the root slots whose first byte is 0x00, and those marked deleted
ZeroSlots(img) == {i \in 0..(ROOT_SLOTS - 1) : SlotByte(img, i) = 0}

DeletedSlots(img) == {i \in 0..(ROOT_SLOTS - 1) : SlotByte(img, i) = 229}

\* C27: a created image has 112 slots that start with 0x00; an injectFile
\* that returns true takes the lowest of them and no slot marked deleted,
\* and no other call changes them, deleteFile included: the slots starting
\* with 0x00 only get fewer, one for each injectFile that returns true, so
\* at most 112 such calls follow createNew720KImage
C27_SlotsOnlyConsumed ==
  [][/\ m_image = createNew720KImage => Cardinality(ZeroSlots(m_image)) = ROOT_SLOTS
     /\ Injected' =>
          /\ ZeroSlots(m_image) # {}
          /\ \E slot \in ZeroSlots(m_image) :
               /\ \A j \in ZeroSlots(m_image) : slot <= j
               /\ ZeroSlots(m_image') = ZeroSlots(m_image) \ {slot}
               /\ SlotByte(m_image', slot) # 229
          /\ DeletedSlots(m_image') = DeletedSlots(m_image)
     /\ ~Injected' => ZeroSlots(m_image') = ZeroSlots(m_image)
    ]_vars

\* an injectFile returned true while a lower slot was marked deleted, and
\* left that slot marked
C27_Witness ==
  /\ Injected
  /\ \E slot \in ZeroSlots(last.pre) \ ZeroSlots(m_image) :
       \E i \in DeletedSlots(last.pre) : i < slot /\ i \in DeletedSlots(m_image)

====
